---- MODULE Spec2Model ----
(***************************************************************************)
(* Model of package length (penguingovernor/length): the Distance type,   *)
(* the display mode (usingMetric) with ToggleUnits / UseMetric /          *)
(* UseImperial, the formatter Distance.String and the parser              *)
(* ParseDistance with its helpers leadingInt and leadingFraction.         *)
(*                                                                         *)
(* Numbers.  Distance is a Go float64 and leadingFraction works on int64. *)
(* Both exceed the integers of the model checker, so a magnitude is a     *)
(* sequence of limbs in base 10000 (least significant first, no leading   *)
(* zero limb, zero = << >>) and a float64 value is a record               *)
(*     [neg |-> sign, m |-> magnitude, e |-> decimal exponent]            *)
(* standing for (-1)^neg * m / 10^e.  The arithmetic on these records is  *)
(* exact: float64 rounding (relative error 2^-53) is not modelled, what   *)
(* is modelled is that float64 arithmetic never wraps around, so a sum or *)
(* product of non-negative values is never negative.  int64 arithmetic    *)
(* (leadingFraction) wraps modulo 2^64.  Text is a sequence of bytes,     *)
(* each byte a one-character string; the two bytes of U+00B5 are "xC2",   *)
(* "xB5" and those of U+03BC are "xCE", "xBC".                            *)
(***************************************************************************)
EXTENDS Integers, Sequences, FiniteSets, TLC

VARIABLES
  usingMetric,     \* the package variable usingMetric
  s,               \* the text a caller passes to ParseDistance
  d,               \* the Distance a caller calls String on
  parsed,          \* what the last call of ParseDistance returned
  printed,         \* what the last call of String returned, and the mode it read
  lastCall,        \* the last call made, and the one before it
  prevCall,
  modeBeforeLast,  \* usingMetric as it was before each of these two calls
  modeBeforePrev,
  lastModeOp       \* the last of ToggleUnits, UseMetric, UseImperial called

vars == <<usingMetric, s, d, parsed, printed, lastCall, prevCall,
          modeBeforeLast, modeBeforePrev, lastModeOp>>

---------------------------------------------------------------------------
(* Evaluation order.  Let1(F, a) is F(a) with a computed once, before F is *)
(* applied (a bound variable holds a value, a parameter holds an           *)
(* expression that is computed again at each use).  Iterate(Step, st, lo,  *)
(* hi) is the loop "for i := lo; i <= hi; i++ { st = Step(st, i) }",       *)
(* split in halves to keep the evaluation shallow; a loop that breaks sets *)
(* a flag in st that makes the later steps leave st alone.                 *)

Let1(F(_), a) == CHOOSE r \in {F(x) : x \in {a}} : TRUE
Let2(F(_, _), a, b) == CHOOSE r \in {F(x, y) : x \in {a}, y \in {b}} : TRUE
Let3(F(_, _, _), a, b, c) ==
  CHOOSE r \in {F(x, y, z) : x \in {a}, y \in {b}, z \in {c}} : TRUE

RECURSIVE Iterate(_, _, _, _)
Iterate(Step(_, _), st, lo, hi) ==
  IF lo > hi THEN st
  ELSE IF lo = hi THEN Step(st, lo)
  ELSE Let1(LAMBDA mid :
              Let1(LAMBDA st1 : Iterate(Step, st1, mid + 1, hi), Iterate(Step, st, lo, mid)),
            (lo + hi) \div 2)

---------------------------------------------------------------------------
(* Magnitudes: base-10000 limbs, least significant first.                  *)

Base == 100 * 100

Limb(a, i) == IF i <= Len(a) THEN a[i] ELSE 0

BTrim(a0) ==
  Let1(LAMBDA a :
         IF \A i \in 1..Len(a) : a[i] = 0 THEN << >>
         ELSE SubSeq(a, 1, CHOOSE i \in 1..Len(a) :
                              a[i] # 0 /\ \A j \in (i + 1)..Len(a) : a[j] = 0),
       a0)

BSmall(n) ==
  IF n = 0 THEN << >>
  ELSE IF n < Base THEN <<n>>
  ELSE IF n < Base * Base THEN <<n % Base, n \div Base>>
  ELSE <<n % Base, (n \div Base) % Base, n \div (Base * Base)>>

\* the limbs out and the carry c, once the loop is over
WithCarry(st) == IF st.c = 0 THEN st.out ELSE Append(st.out, st.c)

BAdd(a0, b0) ==
  Let2(LAMBDA a, b :
         WithCarry(Iterate(LAMBDA st, i :
                             Let1(LAMBDA t : [c |-> t \div Base, out |-> Append(st.out, t % Base)],
                                  Limb(a, i) + Limb(b, i) + st.c),
                           [c |-> 0, out |-> << >>], 1,
                           IF Len(a) >= Len(b) THEN Len(a) ELSE Len(b))),
       a0, b0)

\* a - b for a >= b
BSub(a0, b0) ==
  Let2(LAMBDA a, b :
         BTrim(Iterate(LAMBDA st, i :
                         Let1(LAMBDA t : [c |-> IF t < 0 THEN 1 ELSE 0,
                                          out |-> Append(st.out, IF t < 0 THEN t + Base ELSE t)],
                              a[i] - Limb(b, i) - st.c),
                       [c |-> 0, out |-> << >>], 1, Len(a)).out),
       a0, b0)

\* -1, 0, 1 as a < b, a = b, a > b
BCmp(a0, b0) ==
  Let2(LAMBDA a, b :
         IF Len(a) < Len(b) THEN -1
         ELSE IF Len(a) > Len(b) THEN 1
         ELSE IF \A i \in 1..Len(a) : a[i] = b[i] THEN 0
         ELSE LET i == CHOOSE i \in 1..Len(a) :
                         a[i] # b[i] /\ \A j \in (i + 1)..Len(a) : a[j] = b[j]
              IN IF a[i] < b[i] THEN -1 ELSE 1,
       a0, b0)

\* a * k for 0 <= k < Base
BMulSmall(a0, k0) ==
  Let2(LAMBDA a, k :
         IF k = 0 THEN << >>
         ELSE WithCarry(Iterate(LAMBDA st, i :
                                  Let1(LAMBDA t : [c |-> t \div Base,
                                                   out |-> Append(st.out, t % Base)],
                                       a[i] * k + st.c),
                                [c |-> 0, out |-> << >>], 1, Len(a))),
       a0, k0)

\* a * Base^k
BShift(a0, k0) ==
  Let2(LAMBDA a, k : IF a = << >> THEN << >> ELSE [j \in 1..k |-> 0] \o a, a0, k0)

BMul(a0, b0) ==
  Let2(LAMBDA a, b :
         Iterate(LAMBDA out, i : BAdd(out, BShift(BMulSmall(a, b[i]), i - 1)),
                 << >>, 1, Len(b)),
       a0, b0)

\* a * 10^k
BMulPow10(a, k0) ==
  Let1(LAMBDA k : BShift(BMulSmall(a, <<1, 10, 100, 1000>>[(k % 4) + 1]), k \div 4), k0)

\* the decimal digits of a, most significant first (zero is <<0>>)
BDigits(a0) ==
  Let1(LAMBDA a :
         IF a = << >> THEN <<0>>
         ELSE LET n   == 4 * Len(a)
                  \* the digit of weight 10^p
                  D(p) == (a[(p \div 4) + 1] \div <<1, 10, 100, 1000>>[(p % 4) + 1]) % 10
                  top == CHOOSE p \in 0..(n - 1) :
                           D(p) # 0 /\ \A q \in (p + 1)..(n - 1) : D(q) = 0
              IN [i \in 1..(top + 1) |-> D(top + 1 - i)],
       a0)

\* the magnitude with decimal digits ds (most significant first)
BOfDigits(ds0) ==
  Let1(LAMBDA ds :
         LET n    == Len(ds)
             D(p) == IF p < n THEN ds[n - p] ELSE 0
         IN BTrim([k \in 1..((n + 3) \div 4) |->
                     D(4 * (k - 1)) + 10 * D(4 * (k - 1) + 1)
                       + 100 * D(4 * (k - 1) + 2) + 1000 * D(4 * (k - 1) + 3)]),
       ds0)

\* a \div 10
BDiv10(a0) ==
  Let1(LAMBDA ds : BOfDigits(SubSeq(ds, 1, Len(ds) - 1)), BDigits(a0))

\* n \div dd and n % dd for dd > 0, by long division on the decimal digits of n
BDivMod(n, dd0) ==
  Let2(LAMBDA ds, mult :
         Let1(LAMBDA st : [q |-> BOfDigits(st.q), r |-> st.r],
              Iterate(LAMBDA st, i :
                        Let1(LAMBDA t :
                               Let1(LAMBDA k : [q |-> Append(st.q, k),
                                                r |-> BSub(t, mult[k + 1])],
                                    CHOOSE j \in 0..9 :
                                      /\ BCmp(mult[j + 1], t) <= 0
                                      /\ BCmp(mult[j + 2], t) > 0),
                             BAdd(BMulSmall(st.r, 10), BSmall(ds[i]))),
                      [q |-> << >>, r |-> << >>], 1, Len(ds))),
       BDigits(n), [j \in 1..11 |-> BMulSmall(dd0, j - 1)])

---------------------------------------------------------------------------
(* float64 values, exactly: (-1)^neg * m / 10^e, in normal form (e as     *)
(* small as possible, zero is positive: Go's -0 == 0 and no code path of  *)
(* the package tells them apart).                                         *)

FNorm(neg, m0, e0) ==
  Let2(LAMBDA m, e :
         IF m = << >> THEN [neg |-> FALSE, m |-> << >>, e |-> 0]
         ELSE Let1(LAMBDA ds :
                     LET n == Len(ds)
                         \* the trailing zeros of m that e allows to drop
                         z == CHOOSE k \in 0..(IF e < n THEN e ELSE n - 1) :
                                /\ \A j \in 1..k : ds[n + 1 - j] = 0
                                /\ k = e \/ k = n - 1 \/ ds[n - k] # 0
                     IN [neg |-> neg, m |-> BOfDigits(SubSeq(ds, 1, n - z)), e |-> e - z],
                   BDigits(m)),
       m0, e0)

FInt(n) == [neg |-> FALSE, m |-> BSmall(n), e |-> 0]

\* the non-negative integer with magnitude m
FBig(m) == [neg |-> FALSE, m |-> m, e |-> 0]

\* the decimal constant n / 10^e, as 2.54 is FDec(254, 2)
FDec(n, e) == FNorm(FALSE, BSmall(n), e)

FZero == FInt(0)

FNeg(a0) == Let1(LAMBDA a : FNorm(~a.neg, a.m, a.e), a0)

FMax(i, j) == IF i >= j THEN i ELSE j

\* the magnitude of a in units of 10^-e, for e >= a.e
FScaled(a, e) == BMulPow10(a.m, e - a.e)

FAdd(a0, b0) ==
  Let2(LAMBDA a, b :
         Let3(LAMBDA e, x, y :
                IF a.neg = b.neg THEN FNorm(a.neg, BAdd(x, y), e)
                ELSE IF BCmp(x, y) >= 0 THEN FNorm(a.neg, BSub(x, y), e)
                ELSE FNorm(b.neg, BSub(y, x), e),
              FMax(a.e, b.e), FScaled(a, FMax(a.e, b.e)), FScaled(b, FMax(a.e, b.e))),
       a0, b0)

FMul(a0, b0) ==
  Let2(LAMBDA a, b : FNorm(a.neg # b.neg, BMul(a.m, b.m), a.e + b.e), a0, b0)

\* -1, 0, 1 as a < b, a = b, a > b
FCmp(a0, b0) ==
  Let2(LAMBDA a, b :
         IF a.neg /\ ~b.neg THEN -1
         ELSE IF ~a.neg /\ b.neg THEN 1
         ELSE Let1(LAMBDA c : IF a.neg THEN 0 - c ELSE c,
                   BCmp(FScaled(a, FMax(a.e, b.e)), FScaled(b, FMax(a.e, b.e)))),
       a0, b0)

FGt(a, b) == FCmp(a, b) > 0
FGe(a, b) == FCmp(a, b) >= 0
FLt0(a) == a.neg

\* a / b for b a positive power of ten (the only divisor the parser forms
\* besides a unit): the exponent of b is the number of its digits less one
FDivPow10(a0, b0) ==
  Let2(LAMBDA a, b : FNorm(a.neg, a.m, a.e + (Len(BDigits(b.m)) - 1 - b.e)), a0, b0)

FAbs(a0) == Let1(LAMBDA a : [a EXCEPT !.neg = FALSE], a0)

---------------------------------------------------------------------------
(* The unit constants and the unit table.                                  *)

Nanometer  == FInt(1)
Micrometer == FMul(FInt(1000), Nanometer)
Millimeter == FMul(FInt(1000), Micrometer)
Centimeter == FMul(FInt(10), Millimeter)
Meter      == FMul(FInt(1000), Millimeter)
Kilometer  == FMul(FInt(1000), Meter)
Inch       == FMul(FDec(254, 2), Centimeter)
Feet       == FMul(FDec(3048, 1), Millimeter)
Yard       == FMul(FInt(3), Feet)
Mile       == FMul(FInt(5280), Feet)
Lightyear  == FMul(FMul(FInt(9461), FInt(1000000000)), Kilometer)

unitMap ==
  (<<"n", "m">> :> Nanometer) @@
  (<<"u", "m">> :> Micrometer) @@
  (<<"xC2", "xB5", "m">> :> Micrometer) @@
  (<<"xCE", "xBC", "m">> :> Micrometer) @@
  (<<"m", "m">> :> Millimeter) @@
  (<<"c", "m">> :> Centimeter) @@
  (<<"m">> :> Meter) @@
  (<<"k", "m">> :> Kilometer) @@
  (<<"i", "n">> :> Inch) @@
  (<<"f", "t">> :> Feet) @@
  (<<"y", "d">> :> Yard) @@
  (<<"m", "i">> :> Mile) @@
  (<<"l", "y">> :> Lightyear)

\* 1<<63 (as (1<<21)^3), 1<<64 and 1<<63 - 1
Two63 == BMul(BMul(BSmall(2097152), BSmall(2097152)), BSmall(2097152))
Two64 == BAdd(Two63, Two63)
MaxInt63 == BSub(Two63, BSmall(1))

\* the untyped integer constant (1<<63-1)/10
MaxInt63Div10 == BDiv10(MaxInt63)

---------------------------------------------------------------------------
(* Bytes.                                                                  *)

DigitVal ==
  ("0" :> 0) @@ ("1" :> 1) @@ ("2" :> 2) @@ ("3" :> 3) @@ ("4" :> 4) @@
  ("5" :> 5) @@ ("6" :> 6) @@ ("7" :> 7) @@ ("8" :> 8) @@ ("9" :> 9)

DigitChar == <<"0", "1", "2", "3", "4", "5", "6", "7", "8", "9">>

\* c < '0' || c > '9' is ~IsDigit(c)
IsDigit(c) == c \in DOMAIN DigitVal

\* s[i:] of Go, for the 1-based index i of the model
From(str, i) == SubSeq(str, i, Len(str))

---------------------------------------------------------------------------
(* The formatter.                                                          *)

\* fmt.Sprintf("%f", float64(x)/float64(u)): the quotient rounded to six
\* decimals (half to even), as an optional '-', the integer digits, '.', and
\* six fraction digits
Sprintf_f(x0, u0) ==
  Let2(LAMBDA x, u :
    Let2(LAMBDA qr, den :
      Let1(LAMBDA ds :
             LET pad == IF Len(ds) >= 7 THEN ds
                        ELSE [i \in 1..7 |-> IF i <= 7 - Len(ds) THEN 0
                                             ELSE ds[i - (7 - Len(ds))]]
                 n   == Len(pad)
             IN (IF x.neg # u.neg THEN <<"-">> ELSE << >>)
                \o [i \in 1..(n - 6) |-> DigitChar[pad[i] + 1]]
                \o <<".">>
                \o [i \in 1..6 |-> DigitChar[pad[n - 6 + i] + 1]],
           LET c   == BCmp(BMulSmall(qr.r, 2), den)
               odd == qr.q # << >> /\ qr.q[1] % 2 = 1
           IN BDigits(IF c > 0 \/ (c = 0 /\ odd) THEN BAdd(qr.q, BSmall(1)) ELSE qr.q)),
      BDivMod(BMulPow10(x.m, 6 + u.e), BMulPow10(u.m, x.e)), BMulPow10(u.m, x.e)),
    x0, u0)

\* a variant of printMetric that prints millimeters with the suffix "cm"
printMetricMmAsCm(d0) ==
  Let1(LAMBDA x :
         IF FGe(x, FMul(FInt(1), Meter)) THEN Sprintf_f(x, Meter) \o <<"m">>
         ELSE IF FGe(x, FMul(FInt(1), Centimeter))
           THEN Sprintf_f(x, Centimeter) \o <<"c", "m">>
         ELSE IF FGe(x, FMul(FInt(1), Millimeter))
           THEN Sprintf_f(x, Millimeter) \o <<"c", "m">>
         ELSE IF FGe(x, FMul(FInt(1), Micrometer))
           THEN Sprintf_f(x, Micrometer) \o <<"xC2", "xB5", "m">>
         ELSE IF x = FZero THEN <<"0", "m">>
         ELSE Sprintf_f(x, Nanometer) \o <<"n", "m">>,
       d0)

printMetric(d0) ==
  Let1(LAMBDA x :
         IF FGe(x, FMul(FInt(1), Meter)) THEN Sprintf_f(x, Meter) \o <<"m">>
         ELSE IF FGe(x, FMul(FInt(1), Centimeter))
           THEN Sprintf_f(x, Centimeter) \o <<"c", "m">>
         ELSE IF FGe(x, FMul(FInt(1), Millimeter))
           THEN Sprintf_f(x, Millimeter) \o <<"m", "m">>
         ELSE IF FGe(x, FMul(FInt(1), Micrometer))
           THEN Sprintf_f(x, Micrometer) \o <<"xC2", "xB5", "m">>
         ELSE IF x = FZero THEN <<"0", "m">>
         ELSE Sprintf_f(x, Nanometer) \o <<"n", "m">>,
       d0)

printImperial(d0) ==
  Let1(LAMBDA x :
         IF FGe(x, FMul(FInt(1), Yard)) THEN Sprintf_f(x, Yard) \o <<"y", "d">>
         ELSE IF FGe(x, FMul(FInt(1), Feet)) THEN Sprintf_f(x, Feet) \o <<"f", "t">>
         ELSE IF x = FZero THEN <<"0", "y", "d">>
         ELSE Sprintf_f(x, Inch) \o <<"i", "n">>,
       d0)

\* Distance.String, reading the display mode
String(x, metric) == IF metric THEN printMetric(x) ELSE printImperial(x)

---------------------------------------------------------------------------
(* The parser.                                                             *)

\* leadingInt: the loop over i, on st = [x, i, done, err] with i the next index
leadingIntStep(str, st, i) ==
  IF st.done THEN st
  ELSE IF ~IsDigit(str[i]) THEN [st EXCEPT !.done = TRUE]
  ELSE IF FGt(st.x, FBig(MaxInt63Div10)) THEN [st EXCEPT !.done = TRUE, !.err = TRUE]
  ELSE Let1(LAMBDA y : IF FLt0(y) THEN [st EXCEPT !.done = TRUE, !.err = TRUE]
                       ELSE [st EXCEPT !.x = y, !.i = i + 1],
            FAdd(FMul(st.x, FInt(10)), FInt(DigitVal[str[i]])))

\* leadingInt: [x, rem, err]
leadingInt(str0) ==
  Let1(LAMBDA str :
         Let1(LAMBDA st : IF st.err THEN [x |-> FZero, rem |-> << >>, err |-> TRUE]
                          ELSE [x |-> st.x, rem |-> From(str, st.i), err |-> FALSE],
              Iterate(LAMBDA st, i : leadingIntStep(str, st, i),
                      [x |-> FZero, i |-> 1, done |-> FALSE, err |-> FALSE], 1, Len(str))),
       str0)

\* the int64 with the bits of n, for 0 <= n < 2^64: [neg, m]
Int64(n0) ==
  Let1(LAMBDA n : IF BCmp(n, Two63) >= 0 THEN [neg |-> TRUE, m |-> BSub(Two64, n)]
                  ELSE [neg |-> FALSE, m |-> n],
       n0)

\* a variant of the loop that goes on multiplying scale after the overflow
leadingFractionStepScaling(str, st, i) ==
  IF st.done THEN st
  ELSE IF ~IsDigit(str[i]) THEN [st EXCEPT !.done = TRUE]
  ELSE IF st.overflow
    THEN [st EXCEPT !.scale = FMul(st.scale, FInt(10)), !.i = i + 1]
  ELSE IF BCmp(st.x, MaxInt63Div10) > 0 THEN [st EXCEPT !.overflow = TRUE, !.i = i + 1]
  ELSE Let1(LAMBDA y : IF y.neg THEN [st EXCEPT !.overflow = TRUE, !.i = i + 1]
                       ELSE [st EXCEPT !.x = y.m, !.scale = FMul(st.scale, FInt(10)),
                                       !.i = i + 1],
            Int64(BAdd(BMulSmall(st.x, 10), BSmall(DigitVal[str[i]]))))

\* leadingFraction: the loop over i, on st = [x, scale, overflow, i, done]
\* with x an int64 (never negative), scale a float64 and i the next index
leadingFractionStep(str, st, i) ==
  IF st.done THEN st
  ELSE IF ~IsDigit(str[i]) THEN [st EXCEPT !.done = TRUE]
  ELSE IF st.overflow THEN [st EXCEPT !.i = i + 1]
  ELSE IF BCmp(st.x, MaxInt63Div10) > 0 THEN [st EXCEPT !.overflow = TRUE, !.i = i + 1]
  ELSE Let1(LAMBDA y : IF y.neg THEN [st EXCEPT !.overflow = TRUE, !.i = i + 1]
                       ELSE [st EXCEPT !.x = y.m, !.scale = FMul(st.scale, FInt(10)),
                                       !.i = i + 1],
            Int64(BAdd(BMulSmall(st.x, 10), BSmall(DigitVal[str[i]]))))

\* leadingFraction: [x, scale, rem]
leadingFraction(str0) ==
  Let1(LAMBDA str :
         Let1(LAMBDA st : [x |-> st.x, scale |-> st.scale, rem |-> From(str, st.i)],
              Iterate(LAMBDA st, i : leadingFractionStep(str, st, i),
                      [x |-> << >>, scale |-> FInt(1), overflow |-> FALSE, i |-> 1,
                       done |-> FALSE], 1, Len(str))),
       str0)

\* the errors ParseDistance builds, by message and the parts spliced into it
NilErr == [kind |-> "nil", u |-> << >>, orig |-> << >>]
ErrInvalid(orig) == [kind |-> "length: invalid distance ", u |-> << >>, orig |-> orig]
ErrMissingUnit(orig) ==
  [kind |-> "length: missing unit in distance ", u |-> << >>, orig |-> orig]
ErrUnknownUnit(u, orig) ==
  [kind |-> "length: unknown unit ", u |-> u, orig |-> orig]

Return(val, err) == [val |-> val, err |-> err]

\* the i at which the loop "for ; i < len(s); i++" over the unit stops
\* a variant of unitRun that ends the unit at a digit only, not at a '.'
unitRunToDigit(str0) ==
  Let1(LAMBDA str :
         IF \A j \in 1..Len(str) : ~IsDigit(str[j]) THEN Len(str)
         ELSE (CHOOSE j \in 1..Len(str) :
                 /\ IsDigit(str[j])
                 /\ \A k \in 1..(j - 1) : ~IsDigit(str[k])) - 1,
       str0)

unitRun(str0) ==
  Let1(LAMBDA str :
         IF \A j \in 1..Len(str) : ~(str[j] = "." \/ IsDigit(str[j])) THEN Len(str)
         ELSE (CHOOSE j \in 1..Len(str) :
                 /\ str[j] = "." \/ IsDigit(str[j])
                 /\ \A k \in 1..(j - 1) : ~(str[k] = "." \/ IsDigit(str[k]))) - 1,
       str0)

\* v > (1<<63-1)/unit, for unit > 0: v * unit > 1<<63-1
GtMaxOver(v, unit) == FGt(FMul(v, unit), FBig(MaxInt63))

\* the end of one pass of the loop, from "v > (1<<63-1)/unit" on: num is the
\* number read, [v, f, scale, rem], and rem what follows the unit
addTerm(st, num, unit, rem) ==
  IF GtMaxOver(num.v, unit) THEN [done |-> TRUE, ret |-> Return(FZero, ErrInvalid(st.orig))]
  ELSE Let1(LAMBDA v :
              IF num.f # << >> /\ FLt0(v)
                THEN [done |-> TRUE, ret |-> Return(FZero, ErrInvalid(st.orig))]
              ELSE Let1(LAMBDA d1 :
                          IF FLt0(d1)
                            THEN [done |-> TRUE, ret |-> Return(FZero, ErrInvalid(st.orig))]
                          ELSE [done |-> FALSE, st |-> [st EXCEPT !.str = rem, !.d = d1]],
                        FAdd(st.d, v)),
            IF num.f # << >>
              THEN FAdd(FMul(num.v, unit), FMul(FBig(num.f), FDivPow10(unit, num.scale)))
            ELSE FMul(num.v, unit))

\* "Consume unit": num is the number read, [v, f, scale, rem]
parseUnit(st, num) ==
  Let1(LAMBDA i :
         IF i = 0 THEN [done |-> TRUE, ret |-> Return(FZero, ErrMissingUnit(st.orig))]
         ELSE Let1(LAMBDA u :
                     IF u \notin DOMAIN unitMap
                       THEN [done |-> TRUE, ret |-> Return(FZero, ErrUnknownUnit(u, st.orig))]
                     ELSE addTerm(st, num, unitMap[u], From(num.rem, i + 1)),
                   SubSeq(num.rem, 1, i)),
       unitRun(num.rem))

\* one pass of the loop "for s != """ on st = [orig, str, d, neg]: either a
\* return or the state after the pass
parseTerm(st) ==
  IF ~(st.str[1] = "." \/ IsDigit(st.str[1]))
    THEN [done |-> TRUE, ret |-> Return(FZero, ErrInvalid(st.orig))]
  ELSE Let1(LAMBDA li :
         IF li.err THEN [done |-> TRUE, ret |-> Return(FZero, ErrInvalid(st.orig))]
         ELSE Let1(LAMBDA lf :
                     LET pre  == Len(st.str) # Len(li.rem)
                         post == lf.dot /\ Len(li.rem) - 1 # Len(lf.rem)
                     IN IF ~pre /\ ~post
                          THEN [done |-> TRUE, ret |-> Return(FZero, ErrInvalid(st.orig))]
                        ELSE parseUnit(st, [v |-> li.x, f |-> lf.x, scale |-> lf.scale,
                                            rem |-> lf.rem]),
                   IF li.rem # << >> /\ li.rem[1] = "."
                     THEN [dot |-> TRUE] @@ leadingFraction(Tail(li.rem))
                   ELSE [dot |-> FALSE, x |-> << >>, scale |-> FInt(1), rem |-> li.rem]),
         leadingInt(st.str))

\* a variant of parseLoop without the final "if neg { d = -d }"
RECURSIVE parseLoopUnsigned(_)
parseLoopUnsigned(st) ==
  IF st.str = << >> THEN Return(st.d, NilErr)
  ELSE Let1(LAMBDA t : IF t.done THEN t.ret ELSE parseLoopUnsigned(t.st), parseTerm(st))

\* a variant of parseLoop whose error returns carry the sum read so far
RECURSIVE parseLoopPartial(_)
parseLoopPartial(st) ==
  IF st.str = << >> THEN Return(IF st.neg THEN FNeg(st.d) ELSE st.d, NilErr)
  ELSE Let1(LAMBDA t : IF t.done THEN Return(st.d, t.ret.err) ELSE parseLoopPartial(t.st),
            parseTerm(st))

RECURSIVE parseLoop(_)
parseLoop(st) ==
  IF st.str = << >> THEN Return(IF st.neg THEN FNeg(st.d) ELSE st.d, NilErr)
  ELSE Let1(LAMBDA t : IF t.done THEN t.ret ELSE parseLoop(t.st), parseTerm(st))

\* a variant of ParseDistance that tests for "0" before it consumes the sign
ParseDistanceZeroFirst(orig0) ==
  Let1(LAMBDA orig :
         LET signed == orig # << >> /\ (orig[1] = "-" \/ orig[1] = "+")
             neg    == signed /\ orig[1] = "-"
             str    == IF signed THEN Tail(orig) ELSE orig
         IN IF orig = <<"0">> THEN Return(FZero, NilErr)
            ELSE IF str = << >> THEN Return(FZero, ErrInvalid(orig))
            ELSE Let1(parseLoop, [orig |-> orig, str |-> str, d |-> FZero, neg |-> neg]),
       orig0)

ParseDistance(orig0) ==
  Let1(LAMBDA orig :
         LET signed == orig # << >> /\ (orig[1] = "-" \/ orig[1] = "+")
             neg    == signed /\ orig[1] = "-"
             str    == IF signed THEN Tail(orig) ELSE orig
         IN IF str = <<"0">> THEN Return(FZero, NilErr)
            ELSE IF str = << >> THEN Return(FZero, ErrInvalid(orig))
            ELSE Let1(parseLoop, [orig |-> orig, str |-> str, d |-> FZero, neg |-> neg]),
       orig0)

---------------------------------------------------------------------------
(* The inputs of the model.                                                *)

MaxRawLen == 3      \* longest text of the exhaustive family
MaxTerms == 2       \* most terms of a compound text
MaxMultiple == 2    \* String is called on 1..MaxMultiple times each unit

RECURSIVE Flatten(_)
Flatten(ts) == IF ts = << >> THEN << >> ELSE Head(ts) \o Flatten(Tail(ts))

Signs == {<< >>, <<"-">>, <<"+">>}

\* every text over these bytes, up to MaxRawLen
RawAlphabet == {"0", "1", ".", "-", "+", "m", "s"}
RawTexts == UNION {[1..n -> RawAlphabet] : n \in 0..MaxRawLen}

Nines == [i \in 1..20 |-> "9"]

NumberTexts ==
  { << >>, <<".">>, <<"0">>, <<"1">>, <<"5">>, <<"1", "1">>, <<"1", "2">>,
    <<"3", "0", "0">>, <<".", "5">>, <<"1", ".">>, <<"1", ".", "5">>, <<"1", ".", "9">>,
    <<"1", ".", "0", "0", "0", "0", "0", "0">>,
    <<"5", "0", "0", "0", "0", "0", "0", "0", "0", "0">>,
    <<"9", "2", "2", "3", "3", "7", "2", "0", "3", "6">>,
    <<"9", "2", "2", "3", "3", "7", "2", "0", "3", "7">>,
    Nines, <<"1", ".">> \o Nines, <<"0", ".">> \o Nines,
    <<".", "9", "2", "2", "3", "3", "7", "2", "0", "3", "6", "8", "5", "4", "7", "7", "5",
      "8", "0", "7">>,
    <<".", "9", "2", "2", "3", "3", "7", "2", "0", "3", "6", "8", "5", "4", "7", "7", "5",
      "8", "0", "8">> }

UnknownUnits == {<<"m", "s">>, <<"M">>, <<"x", "x">>, <<"f", "t", "-">>, <<"-">>}

\* an optional sign, a number and a unit (known, unknown or none)
SingleTexts ==
  {sg \o n \o u : sg \in Signs, n \in NumberTexts,
                  u \in DOMAIN unitMap \cup UnknownUnits \cup {<< >>}}

CompoundTerms ==
  { <<"1", "f", "t">>, <<"1", "i", "n">>, <<"5", "f", "t">>, <<"1", "1", "i", "n">>,
    <<".", "5", "n", "m">>, <<"1", "l", "y">>, <<".", "5", "l", "y">>, <<"1", "1">>,
    <<"1", "x", "x">>, <<"1", "f", "t", "-">>,
    <<"5", "0", "0", "0", "0", "0", "0", "0", "0", "0", "m">> }

\* an optional sign and 2..MaxTerms terms
CompoundTexts ==
  {sg \o Flatten(ts) : sg \in Signs,
                       ts \in UNION {[1..n -> CompoundTerms] : n \in 2..MaxTerms}}

ParseInputs == RawTexts \cup SingleTexts \cup CompoundTexts

\* the texts of the package's tests and documentation
ApiInputs ==
  { <<"0">>, <<"1", "2", "m">>, <<"0", "m", "s">>, <<"1", "2">>, <<"-", "1", "n", "m">>,
    <<"-", ".", "l", "y">>, <<"5", "f", "t", "1", "1", "i", "n">>, <<"3", "0", "0", "m">>,
    <<"-", "1", ".", "5", "l", "y">>, <<"5", "f", "t", "1", "1">> }

Units == {unitMap[u] : u \in DOMAIN unitMap}

\* around every threshold of the formatter, of both signs, and below a nanometer
PositiveDists ==
  {FMul(FInt(k), u) : k \in 1..MaxMultiple, u \in Units}
    \cup {FAdd(u, FNeg(Nanometer)) : u \in Units \ {Nanometer}}
    \cup {FDec(5, 1), FDec(15, 1), FDec(9999995, 7), FMul(FDec(9999994, 7), Inch)}

Dists == {FZero} \cup PositiveDists \cup {FNeg(x) : x \in PositiveDists}

---------------------------------------------------------------------------
(* The state machine: a caller of the package.                             *)

NotCalled == "none"

InitLog ==
  /\ usingMetric = TRUE
  /\ parsed = [called |-> FALSE, ret |-> Return(FZero, NilErr)]
  /\ printed = [called |-> FALSE, metric |-> TRUE, out |-> << >>]
  /\ lastCall = NotCalled
  /\ prevCall = NotCalled
  /\ modeBeforeLast = TRUE
  /\ modeBeforePrev = TRUE
  /\ lastModeOp = NotCalled

Init ==
  /\ InitLog
  /\ \E p \in (ApiInputs \X {FZero}) \cup ({<<"0">>} \X Dists) :
       s = p[1] /\ d = p[2]

InitParse ==
  /\ InitLog
  /\ s \in ParseInputs
  /\ d = FZero

Called(name) ==
  /\ prevCall' = lastCall
  /\ lastCall' = name
  /\ modeBeforePrev' = modeBeforeLast
  /\ modeBeforeLast' = usingMetric

\* a variant of ToggleUnits that always leaves the imperial mode
ToggleUnitsToImperial ==
  /\ usingMetric' = FALSE
  /\ Called("ToggleUnits")
  /\ lastModeOp' = "ToggleUnits"
  /\ UNCHANGED <<s, d, parsed, printed>>

ToggleUnits ==
  /\ usingMetric' = ~usingMetric
  /\ Called("ToggleUnits")
  /\ lastModeOp' = "ToggleUnits"
  /\ UNCHANGED <<s, d, parsed, printed>>

\* a variant of UseMetric that flips the mode
UseMetricFlips ==
  /\ usingMetric' = ~usingMetric
  /\ Called("UseMetric")
  /\ lastModeOp' = "UseMetric"
  /\ UNCHANGED <<s, d, parsed, printed>>

UseMetric ==
  /\ usingMetric' = TRUE
  /\ Called("UseMetric")
  /\ lastModeOp' = "UseMetric"
  /\ UNCHANGED <<s, d, parsed, printed>>

UseImperial ==
  /\ usingMetric' = FALSE
  /\ Called("UseImperial")
  /\ lastModeOp' = "UseImperial"
  /\ UNCHANGED <<s, d, parsed, printed>>

CallString ==
  /\ printed' = [called |-> TRUE, metric |-> usingMetric, out |-> String(d, usingMetric)]
  /\ Called("String")
  /\ UNCHANGED <<usingMetric, s, d, parsed, lastModeOp>>

\* a variant of CallParseDistance that leaves the metric mode behind
CallParseDistanceSetsMetric ==
  /\ parsed' = [called |-> TRUE, ret |-> ParseDistance(s)]
  /\ usingMetric' = TRUE
  /\ Called("ParseDistance")
  /\ UNCHANGED <<s, d, printed, lastModeOp>>

CallParseDistance ==
  /\ parsed' = [called |-> TRUE, ret |-> ParseDistance(s)]
  /\ Called("ParseDistance")
  /\ UNCHANGED <<usingMetric, s, d, printed, lastModeOp>>

Next ==
  \/ ToggleUnits
  \/ UseMetric
  \/ UseImperial
  \/ CallString
  \/ CallParseDistance

Spec == Init /\ [][Next]_vars

\* the parser alone, on every text of ParseInputs
NextParse == CallParseDistance

SpecParse == InitParse /\ [][NextParse]_vars

---------------------------------------------------------------------------
(* What the claims speak of: the sign, the terms and the value of a text,  *)
(* read off the text itself.                                               *)

IsNumByte(c) == c = "." \/ IsDigit(c)

HasSign(str) == str # << >> /\ (str[1] = "-" \/ str[1] = "+")

\* the text after the optional sign
Body(str) == IF HasSign(str) THEN Tail(str) ELSE str

\* the length of the longest prefix of str whose bytes all satisfy P
PrefixLen(P(_), str) ==
  IF \A i \in 1..Len(str) : P(str[i]) THEN Len(str)
  ELSE (CHOOSE i \in 1..Len(str) : ~P(str[i]) /\ \A j \in 1..(i - 1) : P(str[j])) - 1

NotNumByte(c) == ~IsNumByte(c)

\* the first term of str, split: the digits before the '.', whether there is a
\* '.', the digits after it, the unit run, and what follows the term
FirstTerm(str0) ==
  Let1(LAMBDA str :
    Let1(LAMBDA a :
      Let1(LAMBDA dot :
        Let1(LAMBDA b :
          Let1(LAMBDA n :
                 [int  |-> SubSeq(str, 1, a),
                  dot  |-> dot,
                  frac |-> SubSeq(str, a + 2, n),
                  unit |-> SubSeq(str, n + 1, n + PrefixLen(NotNumByte, From(str, n + 1))),
                  rest |-> From(str, n + 1 + PrefixLen(NotNumByte, From(str, n + 1)))],
               IF dot THEN a + 1 + b ELSE a),
          IF dot THEN PrefixLen(IsDigit, From(str, a + 2)) ELSE 0),
        a < Len(str) /\ str[a + 1] = "."),
      PrefixLen(IsDigit, str)),
    str0)

DigitsValue(ds) == BOfDigits([i \in 1..Len(ds) |-> DigitVal[ds[i]]])

\* the fractional numerator and denominator of a term: of the digits after the
\* '.', the longest prefix whose value fits 1<<63 - 1, over 10^(its length)
FracKept(frac0) ==
  Let1(LAMBDA frac :
         CHOOSE k \in 0..Len(frac) :
           /\ BCmp(DigitsValue(SubSeq(frac, 1, k)), MaxInt63) <= 0
           /\ k = Len(frac) \/ BCmp(DigitsValue(SubSeq(frac, 1, k + 1)), MaxInt63) > 0,
       frac0)

\* integer_part * unit_scale + fractional_numerator * (unit_scale / denominator)
TermValue(term0) ==
  Let2(LAMBDA term, k :
         FAdd(FMul(FBig(DigitsValue(term.int)), unitMap[term.unit]),
              FMul(FBig(DigitsValue(SubSeq(term.frac, 1, k))),
                   FNorm(FALSE, unitMap[term.unit].m, unitMap[term.unit].e + k))),
       term0, FracKept(term0.frac))

\* a term of the grammar: a number with a digit, and a unit of the table
IsTerm(term) ==
  /\ Len(term.int) + Len(term.frac) > 0
  /\ term.unit \in DOMAIN unitMap

\* the sum of the terms of str when str is one or more terms, and whether it is
RECURSIVE SumOfTerms(_)
SumOfTerms(str0) ==
  Let1(LAMBDA str :
         IF str = << >> THEN [ok |-> TRUE, sum |-> FZero]
         ELSE Let1(LAMBDA term :
                     IF ~IsTerm(term) THEN [ok |-> FALSE, sum |-> FZero]
                     ELSE Let1(LAMBDA r : [ok |-> r.ok, sum |-> FAdd(TermValue(term), r.sum)],
                               SumOfTerms(term.rest)),
                   FirstTerm(str)),
       str0)

\* Sign? Term+
IsDistanceText(str) == Body(str) # << >> /\ SumOfTerms(Body(str)).ok

\* the value the grammar gives a text: the sum, negated when the sign is '-'
ValueOfText(str) ==
  IF str[1] = "-" THEN FNeg(SumOfTerms(Body(str)).sum) ELSE SumOfTerms(Body(str)).sum

Returned == parsed.called
Accepted == parsed.called /\ parsed.ret.err = NilErr
Rejected == parsed.called /\ parsed.ret.err # NilErr

---------------------------------------------------------------------------
(* C1: every accepted text of one or more terms yields the sum of its      *)
(* terms, integer_part * scale + numerator * (scale / denominator) each,   *)
(* negated as a whole when the sign is '-': "-1ft1in" is -(Feet + Inch)    *)
(* and "5ft11in" is 5*Feet + 11*Inch.                                      *)
C1_SumOfTermsSignedOnce ==
  /\ (Accepted /\ IsDistanceText(s)) => parsed.ret.val = ValueOfText(s)
  /\ (Returned /\ s = <<"-", "1", "f", "t", "1", "i", "n">>)
       => Accepted /\ parsed.ret.val = FNeg(FAdd(Feet, Inch))
  /\ (Returned /\ s = <<"5", "f", "t", "1", "1", "i", "n">>)
       => Accepted /\ parsed.ret.val = FAdd(FMul(FInt(5), Feet), FMul(FInt(11), Inch))

C1_Witness ==
  /\ Accepted
  /\ s = <<"-", "1", "f", "t", "1", "i", "n">>
  /\ parsed.ret.val = FNeg(FAdd(Feet, Inch))

---------------------------------------------------------------------------
(* C2: "1" followed by a unit of the table parses to that unit's scale,    *)
(* with or without a fraction of zeros, and the documented forms "300m"    *)
(* and "-1.5ly" are distances ParseDistance accepts.                       *)
C2_EveryUnitParses ==
  Returned =>
    /\ \A u \in DOMAIN unitMap :
         s \in {<<"1">> \o u, <<"1", ".", "0", "0", "0", "0", "0", "0">> \o u}
           => Accepted /\ parsed.ret.val = unitMap[u]
    /\ s = <<"3", "0", "0", "m">> => Accepted /\ parsed.ret.val = FMul(FInt(300), Meter)
    /\ s = <<"-", "1", ".", "5", "l", "y">> => Accepted

---------------------------------------------------------------------------
(* C3 as stated: of the texts without a unit, only the literal "0" is      *)
(* accepted, and its value is zero.                                        *)
IsUnitless(str) == \A i \in 1..Len(Body(str)) : IsNumByte(Body(str)[i])

C3_OnlyLiteralZero ==
  (Returned /\ IsUnitless(s)) =>
    /\ Accepted <=> s = <<"0">>
    /\ Accepted => parsed.ret.val = FZero

(* C3 amended: of the texts without a unit, exactly those that are "0"     *)
(* after the optional sign are accepted ("0", "+0", "-0"), with value      *)
(* zero; every other one is rejected.                                      *)
C3_OnlyZeroAfterSign ==
  (Returned /\ IsUnitless(s)) =>
    /\ Accepted <=> Body(s) = <<"0">>
    /\ Accepted => parsed.ret.val = FZero

C3_Witness ==
  /\ Accepted
  /\ s = <<"-", "0">>
  /\ parsed.ret.val = FZero

---------------------------------------------------------------------------
(* C4: a text of the grammar whose value, or the value of one of whose     *)
(* terms, or whose running sum exceeds 1<<63 - 1 is rejected with the      *)
(* invalid-distance error.                                                 *)
ExceedsRange(x) == FGt(FAbs(x), FBig(MaxInt63))

C4_OverflowRejected ==
  (Returned /\ IsDistanceText(s) /\ ExceedsRange(ValueOfText(s)))
    => parsed.ret.err = ErrInvalid(s)

---------------------------------------------------------------------------
(* C5: every error return carries the zero Distance, whatever had been     *)
(* read before the error.                                                  *)
C5_ErrorReturnsZero == Rejected => parsed.ret.val = FZero

C5_Witness ==
  /\ Rejected
  /\ s = <<"5", "f", "t", "1", "1">>
  /\ parsed.ret.val = FZero

---------------------------------------------------------------------------
(* C6 as stated: after the sign each term is classified by its form alone: *)
(* no digit or '.' first, or a number without a digit, is the              *)
(* invalid-distance error; an empty unit run is the missing-unit error; a  *)
(* unit run that is not exactly a key of the table is the unknown-unit     *)
(* error naming the run.  "1mm" is one millimeter, "0ms", "1M" and         *)
(* "1ft-1in" are unknown-unit errors and "-.ly" is an invalid-distance     *)
(* error.                                                                  *)

\* the integer part without its last digit exceeds (1<<63-1)/10
IntOutOfRange(ds) == BCmp(BDiv10(DigitsValue(ds)), MaxInt63Div10) > 0

\* integer_part * unit_scale exceeds 1<<63 - 1
TermOutOfRange(term) ==
  FGt(FMul(FBig(DigitsValue(term.int)), unitMap[term.unit]), FBig(MaxInt63))

\* the error of the first term of str that has one, NilErr when none has;
\* ranged tells whether a number out of range counts as an error of the term
RECURSIVE Classify(_, _, _)
Classify(str0, orig, ranged) ==
  Let1(LAMBDA str :
    IF str = << >> THEN NilErr
    ELSE IF ~IsNumByte(str[1]) THEN ErrInvalid(orig)
    ELSE Let1(LAMBDA term :
           IF ranged /\ IntOutOfRange(term.int) THEN ErrInvalid(orig)
           ELSE IF Len(term.int) + Len(term.frac) = 0 THEN ErrInvalid(orig)
           ELSE IF term.unit = << >> THEN ErrMissingUnit(orig)
           ELSE IF term.unit \notin DOMAIN unitMap THEN ErrUnknownUnit(term.unit, orig)
           ELSE IF ranged /\ TermOutOfRange(term) THEN ErrInvalid(orig)
           ELSE Classify(term.rest, orig, ranged),
           FirstTerm(str)),
    str0)

HasTermsToClassify(str) == Body(str) # << >> /\ Body(str) # <<"0">>

C6_Examples ==
  /\ s = <<"1", "m", "m">> => Accepted /\ parsed.ret.val = Millimeter
  /\ s = <<"0", "m", "s">> => parsed.ret.err = ErrUnknownUnit(<<"m", "s">>, s)
  /\ s = <<"1", "M">> => parsed.ret.err = ErrUnknownUnit(<<"M">>, s)
  /\ s = <<"1", "f", "t", "-", "1", "i", "n">>
       => parsed.ret.err = ErrUnknownUnit(<<"f", "t", "-">>, s)
  /\ s = <<"-", ".", "l", "y">> => parsed.ret.err = ErrInvalid(s)

---------------------------------------------------------------------------
(* What the claims say String prints, read off the printed text.           *)

\* the unit the thresholds select for x, first match first
SelectedUnit(x, metric) ==
  IF metric
    THEN IF FGe(x, Meter) THEN [scale |-> Meter, suffix |-> <<"m">>]
         ELSE IF FGe(x, Centimeter) THEN [scale |-> Centimeter, suffix |-> <<"c", "m">>]
         ELSE IF FGe(x, Millimeter) THEN [scale |-> Millimeter, suffix |-> <<"m", "m">>]
         ELSE IF FGe(x, Micrometer)
           THEN [scale |-> Micrometer, suffix |-> <<"xC2", "xB5", "m">>]
         ELSE [scale |-> Nanometer, suffix |-> <<"n", "m">>]
  ELSE IF FGe(x, Yard) THEN [scale |-> Yard, suffix |-> <<"y", "d">>]
       ELSE IF FGe(x, Feet) THEN [scale |-> Feet, suffix |-> <<"f", "t">>]
       ELSE [scale |-> Inch, suffix |-> <<"i", "n">>]

\* a decimal with digits, a '.' and six digits, after an optional '-'
IsFixed6(num) ==
  LET n    == Len(num)
      from == IF n > 0 /\ num[1] = "-" THEN 2 ELSE 1
  IN /\ n - 6 > from
     /\ num[n - 6] = "."
     /\ \A i \in from..n : i # n - 6 => IsDigit(num[i])

\* the number such a decimal denotes
ValueOfFixed6(num) == FNorm(num[1] = "-", DigitsValue(SelectSeq(num, IsDigit)), 6)

\* num is x / scale to within half a unit of the sixth decimal
IsQuotient(num, x, scale) ==
  FCmp(FMul(FAbs(FAdd(FMul(num, scale), FNeg(x))), FInt(2000000)), scale) <= 0

NumberPrinted(out, suffix) == SubSeq(out, 1, Len(out) - Len(suffix))

\* the first digit of a printed text
LeadingDigit(out) == IF out[1] = "-" THEN out[2] ELSE out[1]

---------------------------------------------------------------------------
---------------------------------------------------------------------------
(* C8: for every Distance other than zero, in both modes, the number       *)
(* String prints has a leading digit other than 0: the magnitude of d is   *)
(* at least the scale of the selected unit.                                *)
C8_LeadingDigitNonZero ==
  (printed.called /\ d # FZero) =>
    /\ LeadingDigit(printed.out) # "0"
    /\ FGe(FAbs(d), SelectedUnit(d, printed.metric).scale)

---------------------------------------------------------------------------
(* C9: two calls of ToggleUnits in a row restore the mode that held before *)
(* them, so String prints every Distance as before; one call always        *)
(* changes the mode, and after UseMetric then ToggleUnits zero prints as   *)
(* "0yd".                                                                  *)
C9_ToggleTwiceRestores ==
  /\ (lastCall = "ToggleUnits" /\ prevCall = "ToggleUnits") =>
       /\ usingMetric = modeBeforePrev
       /\ String(d, usingMetric) = String(d, modeBeforePrev)
  /\ lastCall = "ToggleUnits" => usingMetric # modeBeforeLast
  /\ (lastCall = "ToggleUnits" /\ prevCall = "UseMetric") =>
       String(FZero, usingMetric) = <<"0", "y", "d">>

C9_Witness ==
  /\ lastCall = "ToggleUnits"
  /\ prevCall = "ToggleUnits"
  /\ ~modeBeforePrev
  /\ ~usingMetric

---------------------------------------------------------------------------
(* C10: the mode is metric until a mode operation is called; when the last *)
(* mode operation called is UseMetric, String of zero is "0m", and when it *)
(* is UseImperial, "0yd", whatever was called before or since.             *)
C10_ModeSetAbsolutely ==
  /\ lastModeOp = NotCalled => usingMetric
  /\ lastModeOp = "UseMetric" => String(FZero, usingMetric) = <<"0", "m">>
  /\ lastModeOp = "UseImperial" => String(FZero, usingMetric) = <<"0", "y", "d">>
  /\ (lastCall = "String" /\ d = FZero /\ lastModeOp = "UseMetric") =>
       printed.out = <<"0", "m">>
  /\ (lastCall = "String" /\ d = FZero /\ lastModeOp = "UseImperial") =>
       printed.out = <<"0", "y", "d">>

C10_Witness ==
  /\ lastModeOp = "UseImperial"
  /\ prevCall = "ParseDistance"
  /\ lastCall = "String"
  /\ d = FZero
  /\ printed.out = <<"0", "y", "d">>

---------------------------------------------------------------------------
(* C11: a call of String or of ParseDistance, accepted or rejected, leaves *)
(* the display mode as it was, and what ParseDistance returns for a text   *)
(* is the same in metric and in imperial mode.                             *)
C11_OnlyModeOpsChangeMode ==
  /\ lastCall \in {"String", "ParseDistance"} => usingMetric = modeBeforeLast
  /\ lastCall = "String" => printed.metric = usingMetric
  /\ parsed.called => parsed.ret = ParseDistance(s)

C11_Witness ==
  /\ lastCall = "ParseDistance"
  /\ prevCall = "String"
  /\ ~modeBeforePrev
  /\ ~usingMetric
  /\ s = <<"5", "f", "t", "1", "1">>
  /\ Rejected

---------------------------------------------------------------------------
(* C12: digits after a '.' never make ParseDistance reject a text.         *)
(* leadingFraction consumes all of them, its numerator is the value of the *)
(* digits it accumulated and stays within 0..1<<63 - 1, it accumulates     *)
(* digits until the next one would overflow and none from then on, and     *)
(* its scale is 10^(number of digits accumulated); a text of the grammar   *)
(* whose integer parts are in range is accepted with the value of its      *)
(* terms, while an integer part out of range is the invalid-distance       *)
(* error.                                                                  *)

\* the texts that follow a '.' of str
FractionTexts(str) == {From(str, i + 1) : i \in {j \in 1..Len(str) : str[j] = "."}}

Pow10(k) == FBig(BMulPow10(BSmall(1), k))

FractionKept(f) ==
  LET r      == leadingFraction(f)
      n      == PrefixLen(IsDigit, f)
      digits == SubSeq(f, 1, n)
      k      == FracKept(digits)
  IN /\ r.rem = From(f, n + 1)
     /\ BCmp(r.x, MaxInt63) <= 0
     /\ r.x = DigitsValue(SubSeq(digits, 1, k))
     /\ r.scale = Pow10(k)

====
